---- MODULE Spec2Model ----
(***************************************************************************)
(* Model of src/main.py: the WorldQuant BRAIN announcements bot.           *)
(*                                                                         *)
(* The bot is an asyncio program.  Command handlers are processed one at a *)
(* time (Application.builder().build() keeps concurrent_updates off), the  *)
(* daily job runs as its own task, so one command and one daily job can    *)
(* interleave, and only at the points where the code awaits the feed or    *)
(* the outbound send.  Every action below is the code between two awaits.  *)
(* save_state never suspends: its lock is never held across an await.      *)
(***************************************************************************)
EXTENDS Integers, Sequences, FiniteSets, TLC

(***************************************************************************)
(* Bounds of the model.                                                    *)
(***************************************************************************)
MaxChat == 2      \* chat ids are 1..MaxChat
MaxFeed == 3      \* the feed publishes at most this many announcements
MaxCmds == 2      \* commands handled in one behaviour
MaxCycles == 2    \* daily_job runs that reach the fetch in one behaviour
MaxBatch == 3     \* longest batch handed to announcements_since_last on its own

Chats == 1..MaxChat

(***************************************************************************)
(* Python values.  A str is a sequence of one-character strings; a dict    *)
(* field is None, an int or a str.                                         *)
(***************************************************************************)
None == [t |-> "none"]
I(n) == [t |-> "int", v |-> n]
S(s) == [t |-> "str", v |-> s]

\* bool(v) as the "or" chain of get_item_id sees it
Truthy(x) ==
  CASE x.t = "none" -> FALSE
    [] x.t = "int" -> x.v # 0
    [] x.t = "str" -> x.v # <<>>

Digit(d) ==
  CASE d = 0 -> "0" [] d = 1 -> "1" [] d = 2 -> "2" [] d = 3 -> "3"
    [] d = 4 -> "4" [] d = 5 -> "5" [] d = 6 -> "6" [] d = 7 -> "7"
    [] d = 8 -> "8" [] d = 9 -> "9"

RECURSIVE StrInt(_)
\* str(n) of a non-negative int
StrInt(n) == IF n < 10 THEN <<Digit(n)>> ELSE StrInt(n \div 10) \o <<Digit(n % 10)>>

\* str(x) of a truthy field value
Str(x) == IF x.t = "int" THEN StrInt(x.v) ELSE x.v

DigitVal(c) == CHOOSE d \in 0..9 : Digit(d) = c

RECURSIVE ParseInt(_)
\* int(s) of a decimal string
ParseInt(s) ==
  IF Len(s) = 1 THEN DigitVal(s[1])
  ELSE 10 * ParseInt(SubSeq(s, 1, Len(s) - 1)) + DigitVal(s[Len(s)])

Reverse(s) == [i \in 1..Len(s) |-> s[Len(s) + 1 - i]]

\* s[:n]
Prefix(s, n) == SubSeq(s, 1, IF Len(s) < n THEN Len(s) ELSE n)

IdBodyChars == 30

(***************************************************************************)
(* Feed items.                                                             *)
(***************************************************************************)
Item(id, uuid, messageId, dateCreated, createdAt, title, body) ==
  [id |-> id, uuid |-> uuid, messageId |-> messageId, dateCreated |-> dateCreated,
   createdAt |-> createdAt, title |-> title, body |-> body]

get_item_id(item) ==
  IF Truthy(item.id) THEN Str(item.id)
  ELSE IF Truthy(item.uuid) THEN Str(item.uuid)
  ELSE IF Truthy(item.messageId) THEN Str(item.messageId)
  ELSE IF Truthy(item.dateCreated) THEN Str(item.dateCreated)
  ELSE IF Truthy(item.createdAt) THEN Str(item.createdAt)
  ELSE (IF item.title.t = "none" THEN <<>> ELSE item.title.v)
       \o <<"|">>
       \o (IF Truthy(item.body) THEN Prefix(item.body.v, IdBodyChars) ELSE <<>>)

RECURSIVE Collect(_, _, _)
\* the scan loop of announcements_since_last: items before the first match
Collect(items, i, last_seen_id) ==
  IF i > Len(items) THEN <<>>
  ELSE IF get_item_id(items[i]) = last_seen_id THEN <<>>
  ELSE <<items[i]>> \o Collect(items, i + 1, last_seen_id)

\* the same loop, collecting the matching item too
CollectInclusive(items, last_seen_id) ==
  LET c == Collect(items, 1, last_seen_id)
  IN  IF Len(c) < Len(items) THEN SubSeq(items, 1, Len(c) + 1) ELSE c

\* announcements_since_last without the final reverse
SinceLastNewestFirst(items, last_seen_id) ==
  IF items = <<>> THEN [new |-> <<>>, newest |-> <<>>]
  ELSE IF last_seen_id.t = "none" THEN [new |-> <<>>, newest |-> get_item_id(items[1])]
  ELSE [new |-> Collect(items, 1, last_seen_id.v), newest |-> get_item_id(items[1])]

\* announcements_since_last with the matching item delivered again
SinceLastInclusive(items, last_seen_id) ==
  IF items = <<>> THEN [new |-> <<>>, newest |-> <<>>]
  ELSE IF last_seen_id.t = "none" THEN [new |-> <<>>, newest |-> get_item_id(items[1])]
  ELSE [new |-> Reverse(CollectInclusive(items, last_seen_id.v)),
        newest |-> get_item_id(items[1])]

\* announcements_since_last with no baseline case: an absent last_seen_id is
\* scanned for like any other
SinceLastNoBaseline(items, last_seen_id) ==
  IF items = <<>> THEN [new |-> <<>>, newest |-> <<>>]
  ELSE [new |-> Reverse(Collect(items, 1, IF last_seen_id.t = "none" THEN <<"N", "o", "n", "e">>
                                          ELSE last_seen_id.v)),
        newest |-> get_item_id(items[1])]

\* (new_items_oldest_first, newest_id); last_seen_id is None or a str
announcements_since_last(items, last_seen_id) ==
  IF items = <<>> THEN [new |-> <<>>, newest |-> <<>>]
  ELSE IF last_seen_id.t = "none" THEN [new |-> <<>>, newest |-> get_item_id(items[1])]
  ELSE [new |-> Reverse(Collect(items, 1, last_seen_id.v)),
        newest |-> get_item_id(items[1])]

(***************************************************************************)
(* State.                                                                  *)
(***************************************************************************)
VARIABLES
  WATCHING,                 \* chat ids that want daily updates
  LAST_SEEN,                \* chat id -> None or S(last announcement id)
  COOKIE_EXPIRED_NOTIFIED,  \* chat ids already told that the session expired
  disk,                     \* state.json
  feedTop,                  \* the feed holds announcements 1..feedTop
  cookieValid,              \* whether the feed accepts WQ_COOKIE
  daily,                    \* the daily_job task: where it is, whether the cookie was
                            \* accepted when it called the fetch, its batch, the chats and
                            \* items still to do, the chats the breaker started with and
                            \* has notified, and baseAt and shown as they were when the
                            \* run started
  cmd,                      \* the command handler being processed, whether the cookie was
                            \* accepted when it called the fetch, and for /watch the
                            \* value baseAt takes when it ends and whether the chat was
                            \* in WATCHING and in COOKIE_EXPIRED_NOTIFIED when it began
  delivered,                \* chat id -> announcements a daily_job has delivered to it
  noticed,                  \* chat ids that got the expiry notice in the current outage
  baseAt,                   \* chat id -> feedTop when it last ran /watch while not watching
  shown,                    \* chat id -> announcements /latest or /recent5 showed it as
                            \* the newest
  gone,                     \* chat ids whose last /watch or /unwatch was an /unwatch
  ranOn,                    \* the batch the last daily_job run got, and the number of
                            \* commands handled by then
  history,                  \* whether the history is recorded: delivered, noticed,
                            \* baseAt, shown, gone, ranOn and all of last
  nCmd,                     \* commands handled so far
  nCycle,                   \* daily_job runs that reached the fetch so far
  last,                     \* what the last step did: its fetch outcome and its message
  arg_items,                \* announcements_since_last on its own: the items argument
  arg_last_seen,            \* ... the last_seen_id argument
  result,                   \* ... the value returned
  raw_file                  \* load_state on its own: what state.json holds

memVars == <<WATCHING, LAST_SEEN, COOKIE_EXPIRED_NOTIFIED>>
envVars == <<feedTop, cookieValid>>
ghostVars == <<delivered, noticed, baseAt, shown, gone, ranOn>>
boundVars == <<history, nCmd, nCycle>>
fnVars == <<arg_items, arg_last_seen, result, raw_file>>
vars == <<WATCHING, LAST_SEEN, COOKIE_EXPIRED_NOTIFIED, disk, feedTop, cookieValid,
          daily, cmd, delivered, noticed, baseAt, shown, gone, ranOn, history, nCmd, nCycle, last,
          arg_items, arg_last_seen, result, raw_file>>

(***************************************************************************)
(* The feed: announcement n has id "n"; a fetch returns the newest         *)
(* FeedLimit announcements, newest first.                                  *)
(***************************************************************************)
FeedLimit == 50

FeedItem(n) == Item(S(StrInt(n)), None, None, None, None, S(<<"A">>), None)

Batch(top) ==
  [i \in 1..(IF top < FeedLimit THEN top ELSE FeedLimit) |-> FeedItem(top + 1 - i)]

\* the announcement number behind a feed identity
ItemNo(id) == ParseInt(id)

\* what a fetch can do: HTTP 401/403 when the cookie is rejected, a transport
\* failure any time, an unexpected envelope on a 200 response.  The feed
\* answers at some moment between the call and its return: a fetch called
\* while the cookie was accepted (sentValid) and returning after it expired
\* may have been answered before or after the expiry
FetchOutcomes(sentValid) ==
  IF cookieValid THEN {"ok", "transport", "format"}
  ELSE IF sentValid THEN {"ok", "auth", "transport", "format"}
  ELSE {"auth", "transport"}

(***************************************************************************)
(* Persistence.                                                            *)
(***************************************************************************)
RECURSIVE SortedSeq(_)
\* sorted(list(set))
SortedSeq(set) ==
  IF set = {} THEN <<>>
  ELSE LET m == CHOOSE x \in set : \A y \in set : x <= y
       IN  <<m>> \o SortedSeq(set \ {m})

Range(seq) == {seq[i] : i \in 1..Len(seq)}

\* the JSON object save_state writes
Snapshot(watching, last_seen, notified) ==
  [watching |-> SortedSeq(watching),
   last_seen |-> {<<StrInt(k), last_seen[k].v>> : k \in {c \in Chats : last_seen[c].t # "none"}},
   cookie_expired_notified |-> SortedSeq(notified)]

save_state(watching, last_seen, notified) ==
  disk' = Snapshot(watching, last_seen, notified)

\* what load_state reads back from a well-formed file
LoadWatching(raw) == Range(raw.watching)
LoadLastSeen(raw) ==
  [c \in Chats |->
     IF \E p \in raw.last_seen : ParseInt(p[1]) = c
     THEN S((CHOOSE p \in raw.last_seen : ParseInt(p[1]) = c)[2])
     ELSE None]
LoadNotified(raw) == Range(raw.cookie_expired_notified)

(***************************************************************************)
(* load_state on any file.  A JSON value is None, an int, a str, a list    *)
(* L(seq of values) or an object D(set of <<key, value>>); a key the       *)
(* object does not have is Absent.  A conversion yields [ok |-> TRUE,      *)
(* v |-> value] or, where Python raises, Raised.                           *)
(***************************************************************************)
L(seq) == [t |-> "list", v |-> seq]
D(pairs) == [t |-> "dict", v |-> pairs]
Absent == [t |-> "absent"]

Raised == [ok |-> FALSE]
Ok(v) == [ok |-> TRUE, v |-> v]

IsDigit(c) == \E d \in 0..9 : Digit(d) = c

\* int(x): an int as it is, a str of decimal digits parsed, ValueError or
\* TypeError for everything else
IntOf(x) ==
  CASE x.t = "int" -> Ok(x.v)
    [] x.t = "str" -> IF x.v # <<>> /\ \A i \in 1..Len(x.v) : IsDigit(x.v[i])
                      THEN Ok(ParseInt(x.v)) ELSE Raised
    [] OTHER -> Raised

\* what "for x in value" yields: the elements of a list, the characters of a
\* str, the keys of an object; None and an int are not iterable
Elements(value) ==
  CASE value.t = "list" -> Ok(Range(value.v))
    [] value.t = "str" -> Ok({S(<<value.v[i]>>) : i \in 1..Len(value.v)})
    [] value.t = "dict" -> Ok({S(p[1]) : p \in value.v})
    [] OTHER -> Raised

\* set(int(x) for x in raw.get(key, []))
IntSetOf(field) ==
  IF field = Absent THEN Ok({})
  ELSE LET e == Elements(field)
       IN  IF ~e.ok THEN Raised
           ELSE IF \E x \in e.v : ~IntOf(x).ok THEN Raised
           ELSE Ok({IntOf(x).v : x \in e.v})

\* str(v) of a JSON scalar
StrOf(v) ==
  CASE v.t = "none" -> <<"N", "o", "n", "e">>
    [] v.t = "int" -> StrInt(v.v)
    [] v.t = "str" -> v.v

\* {int(k): str(v) for k, v in raw.get("last_seen", {}).items()}; only an
\* object has items()
LastSeenOf(field) ==
  IF field = Absent THEN Ok([c \in Chats |-> None])
  ELSE IF field.t # "dict" THEN Raised
  ELSE IF \E p \in field.v : ~IntOf(S(p[1])).ok THEN Raised
  ELSE Ok([c \in Chats |->
             IF \E p \in field.v : IntOf(S(p[1])).v = c
             THEN S(StrOf((CHOOSE p \in field.v : IntOf(S(p[1])).v = c)[2]))
             ELSE None])

\* load_state: the three globals after it, given what they were before.  The
\* three assignments run in order inside one try; the first conversion that
\* raises ends the function in "except Exception", which only prints
load_state(file, watching, last_seen, notified) ==
  LET keep == [watching |-> watching, last_seen |-> last_seen, notified |-> notified,
               error |-> FALSE]
  IN  IF file.t = "missing" THEN keep
      ELSE IF file.t # "dict" THEN [keep EXCEPT !.error = TRUE]
      ELSE LET w == IntSetOf(file.watching)
               l == LastSeenOf(file.last_seen)
               n == IntSetOf(file.cookie_expired_notified)
           IN  IF ~w.ok THEN [keep EXCEPT !.error = TRUE]
               ELSE IF ~l.ok THEN [keep EXCEPT !.watching = w.v, !.error = TRUE]
               ELSE IF ~n.ok
                    THEN [keep EXCEPT !.watching = w.v, !.last_seen = l.v, !.error = TRUE]
               ELSE [watching |-> w.v, last_seen |-> l.v, notified |-> n.v, error |-> FALSE]

(***************************************************************************)
(* Tasks.                                                                  *)
(***************************************************************************)
DailyIdle ==
  [pc |-> "idle", items |-> <<>>, queue |-> <<>>, pending |-> <<>>,
   targets |-> {}, got |-> {}, fresh |-> FALSE, floor |-> [c \in Chats |-> 0],
   seen |-> [c \in Chats |-> {}], sentValid |-> FALSE]
CmdIdle ==
  [pc |-> "idle", chat |-> 0, base |-> 0, watching |-> FALSE, notified |-> FALSE,
   sentValid |-> FALSE]

NoStep == [fetch |-> "none", msg |-> "none", to |-> 0, item |-> 0]

\* what last tells of a step.  Like the history variables, the steps that went
\* well and the fetches that failed without WQ_AUTH_EXPIRED are told only in
\* the behaviours that record history; a step that handled WQ_AUTH_EXPIRED
\* or ended in a send that raised is always told
Did(fetch, msg, to, item) ==
  IF history \/ fetch = "auth" \/ msg \in {"announcement_failed", "notice_failed"}
  THEN [fetch |-> fetch, msg |-> msg, to |-> to, item |-> item]
  ELSE NoStep

\* list(WATCHING): CPython iterates a set of small non-negative ints in
\* increasing order
ListOf(set) == SortedSeq(set)

NoResult == [done |-> FALSE, new |-> <<>>, newest |-> <<>>]

\* no daily_job run to compare the next one with
NoRun == [top |-> 0, cmds |-> 0]

InitBot ==
  /\ WATCHING = {}
  /\ LAST_SEEN = [c \in Chats |-> None]
  /\ COOKIE_EXPIRED_NOTIFIED = {}
  /\ disk = Snapshot({}, [c \in Chats |-> None], {})
  /\ feedTop \in {0, 1}
  /\ cookieValid = TRUE
  /\ daily = DailyIdle
  /\ cmd = CmdIdle
  /\ delivered = [c \in Chats |-> {}]
  /\ noticed = {}
  /\ baseAt = [c \in Chats |-> 0]
  /\ shown = [c \in Chats |-> {}]
  /\ gone = {}
  /\ ranOn = NoRun
  /\ nCmd = 0
  /\ nCycle = 0
  /\ last = NoStep
  /\ result = NoResult

\* no call of announcements_since_last on its own
NoCall == arg_items = <<>> /\ arg_last_seen = None /\ raw_file = [t |-> "missing"]

Init == InitBot /\ NoCall /\ history = FALSE

InitHist == InitBot /\ NoCall /\ history = TRUE

(***************************************************************************)
(* The environment.                                                        *)
(***************************************************************************)
\* an outage lasts while every fetch fails with WQ_AUTH_EXPIRED
NoticedAfter(outcome) == IF outcome = "auth" THEN noticed ELSE {}

\* the history variables are written only in the behaviours that record them
Record(old, new) == IF history THEN new ELSE old

\* the feed gains an announcement at the front
Publish ==
  /\ feedTop < MaxFeed
  /\ feedTop' = feedTop + 1
  /\ last' = NoStep
  /\ UNCHANGED <<memVars, disk, cookieValid, daily, cmd, ghostVars, boundVars, fnVars>>

\* the feed starts to answer 401/403
CookieExpires ==
  /\ cookieValid
  /\ cookieValid' = FALSE
  /\ last' = NoStep
  /\ UNCHANGED <<memVars, disk, feedTop, daily, cmd, ghostVars, boundVars, fnVars>>

\* main(): the operator restarts the idle bot, with or without a fresh cookie
Restart ==
  /\ daily.pc = "idle" /\ cmd.pc = "idle"
  /\ WATCHING' = LoadWatching(disk)
  /\ LAST_SEEN' = LoadLastSeen(disk)
  /\ COOKIE_EXPIRED_NOTIFIED' = LoadNotified(disk)
  /\ cookieValid' \in {cookieValid, TRUE}
  /\ last' = NoStep
  /\ ranOn' = Record(ranOn, NoRun)
  /\ UNCHANGED <<disk, feedTop, daily, cmd, delivered, noticed, baseAt, shown, gone, boundVars,
                 fnVars>>

(***************************************************************************)
(* daily_job and notify_cookie_expired.                                    *)
(***************************************************************************)
RECURSIVE RunChats(_, _, _)
\* the "for chat_id in list(WATCHING)" loop of daily_job from the chat at the
\* head of queue up to the next awaited send
RunChats(queue, last_seen, items) ==
  IF queue = <<>> THEN [queue |-> <<>>, pending |-> <<>>, last_seen |-> last_seen]
  ELSE LET chat_id == Head(queue)
           last_id == last_seen[chat_id]
           r == announcements_since_last(items, last_id)
       IN  IF last_id.t = "none" \/ r.new = <<>>
           THEN RunChats(Tail(queue), [last_seen EXCEPT ![chat_id] = S(r.newest)], items)
           ELSE [queue |-> queue, pending |-> r.new, last_seen |-> last_seen]

\* daily_job resumes its loop over queue: it awaits the next send, or saves and ends
CycleGoesOn(queue, last_seen, items) ==
  LET r == RunChats(queue, last_seen, items)
  IN  /\ LAST_SEEN' = r.last_seen
      /\ IF r.queue = <<>>
         THEN /\ daily' = DailyIdle
              /\ save_state(WATCHING, r.last_seen, COOKIE_EXPIRED_NOTIFIED)
         ELSE /\ daily' = [DailyIdle EXCEPT !.pc = "send", !.items = items,
                                            !.queue = r.queue, !.pending = r.pending,
                                            !.floor = daily.floor, !.seen = daily.seen]
              /\ disk' = disk

RECURSIVE SkipNotified(_, _)
SkipNotified(queue, notified) ==
  IF queue = <<>> THEN <<>>
  ELSE IF Head(queue) \in notified THEN SkipNotified(Tail(queue), notified)
  ELSE queue

\* notify_cookie_expired resumes its loop over queue: it awaits the next
\* notice, or clears WATCHING, saves and ends
NotifyGoesOn(queue, targets, got, fresh) ==
  LET q == SkipNotified(queue, COOKIE_EXPIRED_NOTIFIED)
  IN  IF q = <<>>
      THEN /\ WATCHING' = {}
           /\ COOKIE_EXPIRED_NOTIFIED' = COOKIE_EXPIRED_NOTIFIED
           /\ daily' = DailyIdle
           /\ save_state({}, LAST_SEEN, COOKIE_EXPIRED_NOTIFIED)
      ELSE /\ WATCHING' = WATCHING
           /\ COOKIE_EXPIRED_NOTIFIED' = COOKIE_EXPIRED_NOTIFIED \cup {Head(q)}
           /\ daily' = [DailyIdle EXCEPT !.pc = "notify", !.queue = q,
                                         !.targets = targets, !.got = got, !.fresh = fresh]
           /\ disk' = disk

\* the scheduler fires daily_job
DailyStart ==
  /\ daily.pc = "idle"
  /\ IF WATCHING = {}
     THEN /\ daily' = DailyIdle
          /\ last' = Did("none", "nobody_watching", 0, 0)
          /\ nCycle' = nCycle
     ELSE /\ nCycle < MaxCycles
          /\ daily' = [DailyIdle EXCEPT !.pc = "fetch", !.floor = Record(@, baseAt),
                                         !.seen = Record(@, shown),
                                         !.sentValid = cookieValid]
          /\ last' = NoStep
          /\ nCycle' = nCycle + 1
  /\ UNCHANGED <<memVars, disk, envVars, cmd, ghostVars, history, nCmd, fnVars>>

\* fetch_announcements returns to daily_job
DailyFetch ==
  /\ daily.pc = "fetch"
  /\ \E outcome \in FetchOutcomes(daily.sentValid) :
       /\ last' = Did(outcome, "none", 0, 0)
       /\ noticed' = Record(noticed, NoticedAfter(outcome))
       /\ ranOn' = Record(ranOn, IF outcome = "ok" /\ cmd.pc = "idle"
                                 THEN [top |-> feedTop, cmds |-> nCmd] ELSE NoRun)
       /\ CASE outcome = "ok" ->
                 /\ IF Batch(feedTop) = <<>>
                    THEN /\ daily' = DailyIdle
                         /\ UNCHANGED <<LAST_SEEN, disk>>
                    ELSE CycleGoesOn(ListOf(WATCHING), LAST_SEEN, Batch(feedTop))
                 /\ UNCHANGED <<WATCHING, COOKIE_EXPIRED_NOTIFIED>>
            [] outcome = "auth" ->
                 /\ NotifyGoesOn(ListOf(WATCHING), WATCHING, {},
                                 WATCHING \cap COOKIE_EXPIRED_NOTIFIED = {})
                 /\ UNCHANGED LAST_SEEN
            [] OTHER ->
                 /\ daily' = DailyIdle
                 /\ UNCHANGED <<memVars, disk>>
  /\ UNCHANGED <<envVars, cmd, delivered, baseAt, shown, gone, boundVars, fnVars>>

\* a send_message awaited by daily_job returns or raises
DailySend ==
  /\ daily.pc = "send"
  /\ LET chat_id == Head(daily.queue)
         it == Head(daily.pending)
         n == ItemNo(get_item_id(it))
     IN  \E ok \in BOOLEAN :
           IF ok
           THEN /\ last' = Did("none", "announcement", chat_id, n)
                /\ delivered' = Record(delivered, [delivered EXCEPT ![chat_id] = @ \cup {n}])
                /\ IF Len(daily.pending) > 1
                   THEN /\ daily' = [daily EXCEPT !.pending = Tail(daily.pending)]
                        /\ UNCHANGED <<LAST_SEEN, disk>>
                   ELSE CycleGoesOn(Tail(daily.queue),
                                    [LAST_SEEN EXCEPT ![chat_id] = S(get_item_id(daily.items[1]))],
                                    daily.items)
           ELSE /\ last' = Did("none", "announcement_failed", chat_id, n)
                /\ daily' = DailyIdle
                /\ UNCHANGED <<LAST_SEEN, disk, delivered>>
  /\ UNCHANGED <<WATCHING, COOKIE_EXPIRED_NOTIFIED, envVars, cmd, noticed, baseAt, shown, gone, ranOn,
                 boundVars, fnVars>>

\* a send_message awaited by notify_cookie_expired returns or raises
DailyNotify ==
  /\ daily.pc = "notify"
  /\ LET chat_id == Head(daily.queue)
     IN  \E ok \in BOOLEAN :
           IF ok
           THEN /\ last' = Did("none", "notice", chat_id, 0)
                /\ noticed' = Record(noticed, noticed \cup {chat_id})
                /\ NotifyGoesOn(Tail(daily.queue), daily.targets,
                                daily.got \cup {chat_id}, daily.fresh)
           ELSE /\ last' = Did("none", "notice_failed", chat_id, 0)
                /\ daily' = DailyIdle
                /\ UNCHANGED <<WATCHING, COOKIE_EXPIRED_NOTIFIED, disk, noticed>>
  /\ UNCHANGED <<LAST_SEEN, envVars, cmd, delivered, baseAt, shown, gone, ranOn, boundVars, fnVars>>

(***************************************************************************)
(* Commands.  The reply that ends a handler is sent in the handler's last  *)
(* step: nothing follows it, and no other command starts before it.        *)
(***************************************************************************)
\* /watch up to its baseline fetch
WatchBegin ==
  /\ cmd.pc = "idle"
  /\ nCmd < MaxCmds
  /\ nCmd' = nCmd + 1
  /\ \E chat_id \in Chats :
       /\ WATCHING' = WATCHING \cup {chat_id}
       /\ COOKIE_EXPIRED_NOTIFIED' = COOKIE_EXPIRED_NOTIFIED \ {chat_id}
       /\ cmd' = [pc |-> "watch", chat |-> chat_id,
                  base |-> Record(0, IF chat_id \in WATCHING THEN baseAt[chat_id] ELSE feedTop),
                  watching |-> Record(FALSE, chat_id \in WATCHING),
                  notified |-> Record(FALSE, chat_id \in COOKIE_EXPIRED_NOTIFIED),
                  sentValid |-> cookieValid]
       /\ gone' = Record(gone, gone \ {chat_id})
  /\ last' = NoStep
  /\ UNCHANGED <<LAST_SEEN, disk, envVars, daily, delivered, noticed, baseAt, shown, ranOn,
                 history, nCycle, fnVars>>

\* the WQ_AUTH_EXPIRED branch of watch_command, leaving the chat subscribed
WatchAuthExpiredKeeps(chat_id) ==
  /\ WATCHING' = WATCHING
  /\ save_state(WATCHING, LAST_SEEN, COOKIE_EXPIRED_NOTIFIED)
  /\ last' = Did("auth", "reply_cannot_watch", chat_id, 0)
  /\ UNCHANGED LAST_SEEN

\* the WQ_AUTH_EXPIRED branch of watch_command
WatchAuthExpired(chat_id) ==
  /\ WATCHING' = WATCHING \ {chat_id}
  /\ save_state(WATCHING \ {chat_id}, LAST_SEEN, COOKIE_EXPIRED_NOTIFIED)
  /\ last' = Did("auth", "reply_cannot_watch", chat_id, 0)
  /\ UNCHANGED LAST_SEEN

\* fetch_announcements returns to watch_command
WatchFetch ==
  /\ cmd.pc = "watch"
  /\ \E outcome \in FetchOutcomes(cmd.sentValid) :
       /\ noticed' = Record(noticed, NoticedAfter(outcome))
       /\ CASE outcome = "ok" ->
                 LET items == Batch(feedTop)
                     ls == IF items # <<>>
                           THEN [LAST_SEEN EXCEPT ![cmd.chat] = S(get_item_id(items[1]))]
                           ELSE LAST_SEEN
                 IN  /\ LAST_SEEN' = ls
                     /\ save_state(WATCHING, ls, COOKIE_EXPIRED_NOTIFIED)
                     /\ last' = Did("ok", "reply_watch_on", cmd.chat, 0)
                     /\ UNCHANGED WATCHING
            [] outcome = "auth" -> WatchAuthExpired(cmd.chat)
            [] OTHER ->
                 /\ last' = Did(outcome, "none", 0, 0)
                 /\ UNCHANGED <<WATCHING, LAST_SEEN, disk>>
  /\ cmd' = CmdIdle
  /\ baseAt' = Record(baseAt, [baseAt EXCEPT ![cmd.chat] = cmd.base])
  /\ UNCHANGED <<COOKIE_EXPIRED_NOTIFIED, envVars, daily, delivered, shown, gone, ranOn, boundVars,
                 fnVars>>

\* /unwatch
Unwatch ==
  /\ cmd.pc = "idle"
  /\ nCmd < MaxCmds
  /\ nCmd' = nCmd + 1
  /\ \E chat_id \in Chats :
       /\ WATCHING' = WATCHING \ {chat_id}
       /\ save_state(WATCHING \ {chat_id}, LAST_SEEN, COOKIE_EXPIRED_NOTIFIED)
       /\ last' = Did("none", "reply_watch_off", chat_id, 0)
       /\ gone' = Record(gone, gone \cup {chat_id})
  /\ UNCHANGED <<LAST_SEEN, COOKIE_EXPIRED_NOTIFIED, envVars, daily, cmd, delivered, noticed,
                 baseAt, shown, ranOn, history, nCycle, fnVars>>

\* /latest starts its fetch
LatestBegin ==
  /\ cmd.pc = "idle"
  /\ nCmd < MaxCmds
  /\ nCmd' = nCmd + 1
  /\ \E chat_id \in Chats :
       cmd' = [CmdIdle EXCEPT !.pc = "latest", !.chat = chat_id,
                              !.sentValid = cookieValid]
  /\ last' = NoStep
  /\ UNCHANGED <<memVars, disk, envVars, daily, ghostVars, history, nCycle, fnVars>>

\* /recent5 starts its fetch
Recent5Begin ==
  /\ cmd.pc = "idle"
  /\ nCmd < MaxCmds
  /\ nCmd' = nCmd + 1
  /\ \E chat_id \in Chats :
       cmd' = [CmdIdle EXCEPT !.pc = "recent5", !.chat = chat_id,
                              !.sentValid = cookieValid]
  /\ last' = NoStep
  /\ UNCHANGED <<memVars, disk, envVars, daily, ghostVars, history, nCycle, fnVars>>

\* the WQ_AUTH_EXPIRED branch of an on-demand command, running the breaker's clear
OnDemandAuthExpiredClears(chat_id) ==
  /\ WATCHING' = {}
  /\ COOKIE_EXPIRED_NOTIFIED' = COOKIE_EXPIRED_NOTIFIED \cup WATCHING
  /\ save_state({}, LAST_SEEN, COOKIE_EXPIRED_NOTIFIED \cup WATCHING)
  /\ last' = Did("auth", "reply_expired", chat_id, 0)
  /\ UNCHANGED LAST_SEEN

\* the WQ_AUTH_EXPIRED branch of latest_command and recent5_command
OnDemandAuthExpired(chat_id) ==
  /\ last' = Did("auth", "reply_expired", chat_id, 0)
  /\ UNCHANGED <<memVars, disk>>

\* fetch_announcements returns to latest_command (reply "reply_latest") or to
\* recent5_command (reply "reply_recent5")
OnDemandFetch(reply) ==
  /\ \E outcome \in FetchOutcomes(cmd.sentValid) :
       /\ noticed' = Record(noticed, NoticedAfter(outcome))
       /\ CASE outcome = "ok" ->
                 LET items == Batch(feedTop)
                 IN  IF items = <<>>
                     THEN /\ last' = Did("ok", "reply_none_found", cmd.chat, 0)
                          /\ UNCHANGED <<memVars, disk>>
                     ELSE LET ls == [LAST_SEEN EXCEPT ![cmd.chat] = S(get_item_id(items[1]))]
                          IN  /\ LAST_SEEN' = ls
                              /\ save_state(WATCHING, ls, COOKIE_EXPIRED_NOTIFIED)
                              /\ last' = Did("ok", reply, cmd.chat, ItemNo(get_item_id(items[1])))
                              /\ UNCHANGED <<WATCHING, COOKIE_EXPIRED_NOTIFIED>>
            [] outcome = "auth" -> OnDemandAuthExpired(cmd.chat)
            [] OTHER ->
                 /\ last' = Did(outcome, "none", 0, 0)
                 /\ UNCHANGED <<memVars, disk>>
  /\ cmd' = CmdIdle
  /\ shown' = Record(shown, IF last'.msg = reply
                            THEN [shown EXCEPT ![cmd.chat] = @ \cup {last'.item}] ELSE shown)
  /\ UNCHANGED <<envVars, daily, delivered, baseAt, gone, ranOn, boundVars, fnVars>>

LatestFetch == cmd.pc = "latest" /\ OnDemandFetch("reply_latest")

Recent5Fetch == cmd.pc = "recent5" /\ OnDemandFetch("reply_recent5")

Next ==
  \/ Publish
  \/ CookieExpires
  \/ Restart
  \/ DailyStart
  \/ DailyFetch
  \/ DailySend
  \/ DailyNotify
  \/ WatchBegin
  \/ WatchFetch
  \/ Unwatch
  \/ LatestBegin
  \/ LatestFetch
  \/ Recent5Begin
  \/ Recent5Fetch

Spec == Init /\ [][Next]_vars

\* the same behaviours, with the history variables recorded
SpecHist == InitHist /\ [][Next]_vars

(***************************************************************************)
(* announcements_since_last on its own: every batch of up to MaxBatch of   *)
(* the items below, with every marker below.                               *)
(***************************************************************************)
Xs(n) == [i \in 1..n |-> "x"]

DiffItems ==
  { Item(I(1), None, None, None, None, S(<<"A">>), None),            \* "1"
    Item(S(<<"1">>), None, None, None, None, S(<<"B">>), None),      \* "1" too
    Item(I(0), S(<<"u">>), None, None, None, None, None),            \* "u": id 0 is falsy
    Item(S(<<"2">>), S(<<"u">>), None, None, None, None, None),      \* "2"
    Item(None, None, None, None, None, S(<<"t">>), S(Xs(31))),       \* "t|" and 30 x
    Item(None, None, None, None, None, None, None) }                 \* "|"

DiffMarkers ==
  { None, S(<<>>), S(<<"1">>), S(<<"2">>), S(<<"u">>), S(<<"|">>), S(<<"9">>),
    S(<<"t", "|">> \o Xs(30)) }

InitDiff ==
  /\ InitBot
  /\ feedTop = 0
  /\ history = FALSE
  /\ arg_items \in UNION {[1..n -> DiffItems] : n \in 0..MaxBatch}
  /\ arg_last_seen \in DiffMarkers
  /\ raw_file = [t |-> "missing"]

\* a call of announcements_since_last(arg_items, arg_last_seen)
CallSinceLast ==
  /\ ~result.done
  /\ LET r == announcements_since_last(arg_items, arg_last_seen)
     IN  result' = [done |-> TRUE, new |-> r.new, newest |-> r.newest]
  /\ UNCHANGED <<memVars, disk, envVars, daily, cmd, ghostVars, boundVars, last,
                 arg_items, arg_last_seen, raw_file>>

NextDiff == CallSinceLast

SpecDiff == InitDiff /\ [][NextDiff]_vars

(***************************************************************************)
(* load_state on its own, at process start: every file below, well-formed  *)
(* or not.                                                                 *)
(***************************************************************************)
IdLists ==
  { Absent, L(<<>>), L(<<I(1)>>), L(<<I(1), S(<<"2">>)>>),   \* load without error
    L(<<S(<<"x">>)>>), L(<<I(1), None>>), I(5), None }        \* int(x) or the loop raises

LastSeenMaps ==
  { Absent, D({}), D({<<<<"1">>, S(<<"7">>)>>}),
    D({<<<<"1">>, S(<<"7">>)>>, <<<<"2">>, I(8)>>}),         \* load without error
    D({<<<<"x">>, S(<<"7">>)>>}), L(<<>>), None }             \* int(k) or items() raises

RawFiles ==
  {[t |-> "missing"], [t |-> "unparseable"], [t |-> "list"]}
  \cup {[t |-> "dict", watching |-> w, last_seen |-> l, cookie_expired_notified |-> n] :
          w \in IdLists, l \in LastSeenMaps, n \in IdLists}

InitLoad ==
  /\ InitBot
  /\ feedTop = 0
  /\ history = TRUE
  /\ arg_items = <<>> /\ arg_last_seen = None
  /\ raw_file \in RawFiles

\* main() calls load_state() once, before anything else runs
LoadState ==
  /\ last = NoStep
  /\ LET r == load_state(raw_file, WATCHING, LAST_SEEN, COOKIE_EXPIRED_NOTIFIED)
     IN  /\ WATCHING' = r.watching
         /\ LAST_SEEN' = r.last_seen
         /\ COOKIE_EXPIRED_NOTIFIED' = r.notified
         /\ last' = Did("none", IF r.error THEN "state_load_error" ELSE "state_loaded", 0, 0)
  /\ UNCHANGED <<disk, envVars, daily, cmd, ghostVars, boundVars, fnVars>>

NextLoad == LoadState

SpecLoad == InitLoad /\ [][NextLoad]_vars

(***************************************************************************)
(* Properties.                                                             *)
(***************************************************************************)
Ids(items) == [i \in 1..Len(items) |-> get_item_id(items[i])]

\* arg_last_seen is a str and the identity of arg_items[k]
MarkerAt(k) == arg_last_seen.t = "str" /\ arg_last_seen.v = get_item_id(arg_items[k])

\* C9 as stated: for every index k with last_seen_id = identity(items[k]) the
\* call returns items[0..k-1] oldest-first and the identity of items[0]
C9_EveryMatchingIndex ==
  result.done =>
    \A k \in 1..Len(arg_items) :
      MarkerAt(k) =>
        /\ result.new = Reverse(SubSeq(arg_items, 1, k - 1))
        /\ result.newest = get_item_id(arg_items[1])

\* C9 amended: for the first index k with last_seen_id = identity(items[k])
\* the call returns items[0..k-1] oldest-first and the identity of items[0];
\* for k = 0 that is no new items
C9_FirstMatchingIndex ==
  result.done =>
    \A k \in 1..Len(arg_items) :
      (MarkerAt(k) /\ \A j \in 1..(k - 1) : ~MarkerAt(j)) =>
        /\ result.new = Reverse(SubSeq(arg_items, 1, k - 1))
        /\ result.newest = get_item_id(arg_items[1])
        /\ (k = 1 => result.new = <<>>)

\* a call whose marker is first matched by the third item, after two
\* different items
C9_Witness ==
  /\ result.done
  /\ Len(arg_items) >= 3
  /\ MarkerAt(3) /\ ~MarkerAt(1) /\ ~MarkerAt(2)
  /\ arg_items[1] # arg_items[2]
  /\ result.new = <<arg_items[2], arg_items[1]>>

\* C10: a last_seen_id that is a str and the identity of no item yields the
\* whole batch, oldest-first
C10_UnknownMarkerReturnsAll ==
  (/\ result.done
   /\ arg_last_seen.t = "str"
   /\ \A k \in 1..Len(arg_items) : ~MarkerAt(k))
  => result.new = Reverse(arg_items)

\* a call with an unknown marker and a batch of at least two different items
C10_Witness ==
  /\ result.done
  /\ arg_last_seen.t = "str"
  /\ Len(arg_items) >= 2
  /\ arg_items[1] # arg_items[Len(arg_items)]
  /\ \A k \in 1..Len(arg_items) : ~MarkerAt(k)
  /\ result.new = Reverse(arg_items)

\* the step just taken ended a send of daily_job
AnnouncementSent == last'.msg = "announcement"
SendFailed == last'.msg = "announcement_failed"

\* the step just taken ended a run of notify_cookie_expired
BreakerEnds ==
  \/ daily.pc = "notify" /\ daily'.pc = "idle"
  \/ daily.pc = "fetch" /\ daily'.pc = "idle" /\ last'.fetch = "auth"

\* the step just taken is the return of a fetch that failed with
\* WQ_AUTH_EXPIRED to the command in the set pcs
CommandAuthExpired(pcs) ==
  cmd.pc \in pcs /\ cmd'.pc = "idle" /\ last'.fetch = "auth"

Persisted == disk = Snapshot(WATCHING, LAST_SEEN, COOKIE_EXPIRED_NOTIFIED)

\* C1: no daily_job delivers to a chat an announcement a daily_job has
\* already delivered to it (the feed of the model only grows at the front)
C1_NoDuplicateDelivery ==
  [][AnnouncementSent => last'.item \notin delivered[last'.to]]_vars

\* C2: a failed send leaves the cycle running: the chat's marker is set to
\* the newest identity once its items are through, and when the cycle ends
\* every chat that was still to do has been processed and the state is saved
C2_FailedSendCycleGoesOn ==
  [][SendFailed =>
       LET newest == S(get_item_id(daily.items[1]))
       IN  /\ Len(daily.pending) = 1 => LAST_SEEN'[last'.to] = newest
           /\ daily'.pc = "idle" =>
                /\ \A c \in Range(daily.queue) : LAST_SEEN'[c] = newest
                /\ Persisted']_vars

\* C3: a daily_job started after a /watch by a chat that was not watching
\* sends that chat no announcement that was in the feed when the /watch
\* began, whatever the baseline fetch of the /watch did
C3_NoBacklogAfterWatch ==
  [][AnnouncementSent => last'.item > daily.floor[last'.to]]_vars

\* C4: a breaker run that starts with N watching chats, none of them in
\* COOKIE_EXPIRED_NOTIFIED, has sent each of them its notice when it ends,
\* and leaves WATCHING empty and all N in COOKIE_EXPIRED_NOTIFIED (with
\* WATCHING empty the next daily_job returns before its fetch and sends nothing)
C4_BreakerNotifiesAllOnce ==
  [][(BreakerEnds /\ daily.pc = "notify" /\ daily.fresh) =>
       /\ daily.got \cup (IF last'.msg = "notice" THEN {last'.to} ELSE {}) = daily.targets
       /\ WATCHING' = {}
       /\ daily.targets \subseteq COOKIE_EXPIRED_NOTIFIED']_vars

\* C5: no chat is sent a second expiry notice in one outage
C5_OneNoticePerOutage ==
  [][last'.msg = "notice" => last'.to \notin noticed]_vars

\* C6: when a run of notify_cookie_expired ends, WATCHING is empty and the
\* state is saved, also when a notice could not be sent
C6_BreakerClearsAndSaves ==
  [][BreakerEnds => WATCHING' = {} /\ Persisted']_vars

C8_WatchRolledBack ==
  [][CommandAuthExpired({"watch"}) =>
       /\ cmd.chat \notin WATCHING'
       /\ cmd.chat \notin LoadWatching(disk')
       /\ last'.msg = "reply_cannot_watch" /\ last'.to = cmd.chat]_vars

\* a /watch has just been rolled back while another chat stays subscribed
C8_Witness ==
  /\ last.fetch = "auth" /\ last.msg = "reply_cannot_watch"
  /\ last.to \notin WATCHING
  /\ last.to \notin LoadWatching(disk)
  /\ WATCHING # {}

\* C11: a call with last_seen_id None or with no items returns no new items;
\* newest_id is the identity of items[0], or "" when there are no items,
\* whatever last_seen_id is
C11_AbsentOrEmptyNothingNew ==
  result.done =>
    /\ (arg_last_seen.t = "none" \/ arg_items = <<>>) => result.new = <<>>
    /\ result.newest = IF arg_items = <<>> THEN <<>> ELSE get_item_id(arg_items[1])

\* a call with last_seen_id None and a batch of at least two different items
C11_Witness ==
  /\ result.done
  /\ arg_last_seen.t = "none"
  /\ Len(arg_items) >= 2
  /\ arg_items[1] # arg_items[2]
  /\ result.new = <<>>
  /\ result.newest = get_item_id(arg_items[1])

\* the step just taken is the fetch of a daily_job run that got the batch the
\* run before it got, with no command, failed fetch or restart in between
SameBatchAgain ==
  /\ daily.pc = "fetch" /\ last'.fetch = "ok"
  /\ ranOn.top > 0 /\ ranOn.top = feedTop
  /\ ranOn.cmds = nCmd /\ cmd.pc = "idle"

\* C12: the second of two daily_job runs in a row on the same batch awaits no
\* send and leaves LAST_SEEN as it was
C12_SecondRunDoesNothing ==
  [][SameBatchAgain => daily'.pc = "idle" /\ LAST_SEEN' = LAST_SEEN]_vars

\* C13: a daily_job run sends a chat no announcement that /latest or /recent5
\* had shown it as the newest before the run started, also when the command
\* ran during an earlier daily_job run
C13_NoResendAfterOnDemand ==
  [][AnnouncementSent => last'.item \notin daily.seen[last'.to]]_vars

\* the step just taken is the return of a fetch that failed with a transport
\* error or an unexpected response format
FetchFailed == last'.fetch \in {"transport", "format"}

\* C14: a fetch that fails with a transport or format error leaves WATCHING,
\* LAST_SEEN, COOKIE_EXPIRED_NOTIFIED and state.json as they were before the
\* operation: daily_job, /latest and /recent5 change nothing before the
\* fetch, and what /watch changed before it (WATCHING.add,
\* COOKIE_EXPIRED_NOTIFIED.discard) is undone
C14_FailedFetchChangesNothing ==
  [][FetchFailed =>
       /\ LAST_SEEN' = LAST_SEEN /\ disk' = disk
       /\ cmd'.pc = "idle" /\ cmd.pc = "watch" =>
            /\ ~cmd.watching => cmd.chat \notin WATCHING'
            /\ cmd.notified => cmd.chat \in COOKIE_EXPIRED_NOTIFIED'
       /\ ~(cmd'.pc = "idle" /\ cmd.pc = "watch") =>
            UNCHANGED <<WATCHING, COOKIE_EXPIRED_NOTIFIED>>]_vars

\* no command handler and no daily_job run is in progress
Idle == daily.pc = "idle" /\ cmd.pc = "idle"

\* C15: whenever no command and no daily_job run is in progress, state.json
\* holds WATCHING, LAST_SEEN and COOKIE_EXPIRED_NOTIFIED as they are in memory
C15_IdleMeansPersisted == Idle => Persisted

\* load_state has run
Loaded == last.msg \in {"state_loaded", "state_load_error"}

\* the file cannot be parsed, or is no object, or the conversion of one of
\* its three fields raises
Corrupt(file) ==
  \/ file.t \in {"unparseable", "list"}
  \/ /\ file.t = "dict"
     /\ \/ ~IntSetOf(file.watching).ok
        \/ ~LastSeenOf(file.last_seen).ok
        \/ ~IntSetOf(file.cookie_expired_notified).ok

\* C16: after load_state on a corrupt file, WATCHING, LAST_SEEN and
\* COOKIE_EXPIRED_NOTIFIED are all at their empty defaults
C16_CorruptFileLoadsDefaults ==
  (Loaded /\ Corrupt(raw_file)) =>
    /\ WATCHING = {}
    /\ LAST_SEEN = [c \in Chats |-> None]
    /\ COOKIE_EXPIRED_NOTIFIED = {}

\* C17: while watch_command awaits its baseline fetch, no save_state of
\* another task writes the chat into the watching list of state.json
C17_NotPersistedBeforeBaseline ==
  [][(cmd.pc = "watch" /\ cmd'.pc = "watch" /\ cmd.chat \notin LoadWatching(disk))
       => cmd.chat \notin LoadWatching(disk')]_vars

\* C18: when watch_command sends its acknowledgment the chat is in WATCHING
\* and in the watching list of the state.json it has just written
C18_AckMeansWatching ==
  [][last'.msg = "reply_watch_on" =>
       /\ last'.to \in WATCHING'
       /\ last'.to \in LoadWatching(disk')]_vars

\* the step just taken is a step of a daily_job run after its start
CycleStep == daily.pc \in {"fetch", "send"} /\ daily' # daily

\* C19: to a chat whose /unwatch has completed and that has not sent /watch
\* since, no step of a daily_job run sends an announcement, and none changes
\* its LAST_SEEN entry, also in a run that had started before the /unwatch
C19_NothingAfterUnwatch ==
  [][CycleStep =>
       \A c \in gone :
         /\ ~(last'.msg = "announcement" /\ last'.to = c)
         /\ LAST_SEEN'[c] = LAST_SEEN[c]]_vars

\* C20: whenever daily_job is not inside notify_cookie_expired, no chat is in
\* both WATCHING and COOKIE_EXPIRED_NOTIFIED, in memory and in state.json
C20_WatchingNotNotified ==
  daily.pc # "notify" =>
    /\ WATCHING \cap COOKIE_EXPIRED_NOTIFIED = {}
    /\ LoadWatching(disk) \cap LoadNotified(disk) = {}

====
